---- MODULE Spec2Model ----
(***************************************************************************)
(* Model of scripts/generate_recettes.py: the recipe generator that asks   *)
(* a language model for a recipe, renders it to an article file and        *)
(* injects a summary card into the FEED block of index.html.               *)
(*                                                                         *)
(* Texts are modelled at two levels.  Descriptions, titles and slugs are   *)
(* sequences of one-character strings, so that the regular expressions of  *)
(* slugify / _html_to_text / _make_excerpt are computed character by       *)
(* character.  The index document is a sequence of tokens (markers, the    *)
(* grid tag, whitespace runs, opaque text chunks, the parts of a card),    *)
(* and the regular expressions of update_index are computed token by       *)
(* token with the leftmost / lazy / greedy semantics of Python's re.       *)
(***************************************************************************)
EXTENDS Integers, Sequences, FiniteSets, TLC

VARIABLES
    index,        \* text of INDEX_FILE on disk (sequence of tokens)
    pre,          \* text of INDEX_FILE before the last update_index call
    last,         \* the last update_index call: arguments and outcome
    hist,         \* stems of the article files of the completed update_index calls
    docInit,      \* text of INDEX_FILE at the beginning
    now,          \* clock read by datetime.now()
    desc,         \* _make_excerpt: argument desc
    lens,         \* _make_excerpt: arguments <<max_len, min_len>>
    excerpt,      \* _make_excerpt: returned value
    epc,          \* _make_excerpt: "call" before, "ret" after the call
    pc,           \* main: position in the script
    attempt,      \* generate_recette_via_ai: loop counter
    last_data,    \* generate_recette_via_ai: last_data
    data,         \* main: data
    banned,       \* generate_recette_via_ai: banned
    articles,     \* stems of the *.html files in ARTICLES_DIR
    images,       \* stems of the files in IMAGES_DIR
    today,        \* date.today()
    runs,         \* number of runs of the script started so far
    validated     \* TRUE iff data left the loop through line 182

vars == <<index, pre, last, hist, docInit, now, desc, lens, excerpt, epc,
          pc, attempt, last_data, data, banned, articles, images, today,
          runs, validated>>

varsIndex == <<index, pre, last, hist, docInit, now>>
varsExcerpt == <<desc, lens, excerpt, epc>>
varsMain == <<pc, attempt, last_data, data, banned, articles, images, today,
              runs, validated>>

----------------------------------------------------------------------------
(* Bounds of the model *)

MaxDescLen == 5      \* longest description given to _make_excerpt
MaxCalls == 3        \* update_index calls in one behaviour
MaxRuns == 2         \* runs of the script in one behaviour

----------------------------------------------------------------------------
(* Sequences of characters *)

Chars == {"a", " ", "\n", "<", ">"}

Whitespace == {" ", "\n", "\t"}

RECURSIVE SeqsUpTo(_, _)
SeqsUpTo(S, n) ==
    IF n = 0 THEN {<< >>}
    ELSE LET shorter == SeqsUpTo(S, n - 1)
         IN  shorter \cup {Append(s, c) : s \in {t \in shorter : Len(t) = n - 1}, c \in S}

IsPrefix(p, s) == Len(p) <= Len(s) /\ SubSeq(s, 1, Len(p)) = p

Max(S) == CHOOSE x \in S : \A y \in S : y <= x
Min(S) == CHOOSE x \in S : \A y \in S : x <= y

RECURSIVE Reverse(_)
Reverse(s) == IF s = << >> THEN << >> ELSE Append(Reverse(Tail(s)), Head(s))

\* str.strip(): whitespace removed at both ends
RECURSIVE LStrip(_)
LStrip(s) ==
    IF s # << >> /\ Head(s) \in Whitespace THEN LStrip(Tail(s)) ELSE s

RECURSIVE RStrip(_)
RStrip(s) ==
    IF s # << >> /\ s[Len(s)] \in Whitespace
    THEN RStrip(SubSeq(s, 1, Len(s) - 1)) ELSE s

Strip(s) == RStrip(LStrip(s))

\* re.sub(r"<[^>]+>", " ", s): at a "<", the match runs to the first ">"
\* after it, and needs at least one character in between
RECURSIVE SubTags(_)
SubTags(s) ==
    IF s = << >> THEN << >>
    ELSE LET closers == {j \in 2..Len(s) : s[j] = ">"}
         IN  IF Head(s) = "<" /\ closers # {} /\ Min(closers) >= 3
             THEN <<" ">> \o SubTags(SubSeq(s, Min(closers) + 1, Len(s)))
             ELSE <<Head(s)>> \o SubTags(Tail(s))

\* str.replace("\n", " ")
ReplaceNewlines(s) == [i \in 1..Len(s) |-> IF s[i] = "\n" THEN " " ELSE s[i]]

\* re.sub(r"\s+", " ", s)
RECURSIVE CollapseSpaces(_)
CollapseSpaces(s) ==
    IF s = << >> THEN << >>
    ELSE IF Head(s) \in Whitespace
         THEN <<" ">> \o CollapseSpaces(LStrip(s))
         ELSE <<Head(s)>> \o CollapseSpaces(Tail(s))

_html_to_text(s) == Strip(ReplaceNewlines(SubTags(s)))

\* str.rfind(" ", 0, stop): the greatest 0-based index below stop, -1 if none
RFindSpace(txt, stop) ==
    LET found == {c \in 0..(Len(txt) - 1) : c < stop /\ txt[c + 1] = " "}
    IN  IF found = {} THEN -1 ELSE Max(found)

\* txt[:n] for n >= 0
Slice(txt, n) == SubSeq(txt, 1, IF n < Len(txt) THEN n ELSE Len(txt))

ExcerptText(d) == CollapseSpaces(_html_to_text(d))

_make_excerpt_nofallback(d, max_len, min_len) ==
    LET txt == ExcerptText(d)
        cut == RFindSpace(txt, max_len)
    IN  IF Len(txt) <= max_len THEN txt
        ELSE Strip(Slice(txt, IF cut < 0 THEN max_len ELSE cut))

_make_excerpt(d, max_len, min_len) ==
    LET txt == ExcerptText(d)
        cut0 == RFindSpace(txt, max_len)
        cut == IF cut0 < min_len THEN max_len ELSE cut0
    IN  IF Len(txt) <= max_len THEN txt
        ELSE Strip(Slice(txt, cut))

----------------------------------------------------------------------------
(* The index document *)

\* A token of the index document.  stem: the characters of the file stem of a
\* card's comment or link target; img: the segments of a path, each a sequence
\* of characters; n: a text chunk's identity, or a time.
Tok(k, stem, title, img, text, n) ==
    [k |-> k, stem |-> stem, title |-> title, img |-> img, text |-> text, n |-> n]

Plain(k) == Tok(k, << >>, << >>, << >>, << >>, 0)

WS == Plain("ws")                    \* a run of whitespace
START == Plain("start")              \* <!-- FEED:start -->
END == Plain("end")                  \* <!-- FEED:end -->
GRID == Plain("grid")                \* an opening tag the pattern of line 300 matches
Chunk(i) == Tok("text", << >>, << >>, << >>, << >>, i)   \* any other text
Stamp(t) == Tok("stamp", << >>, << >>, << >>, << >>, t)  \* <!-- automated-build t -->

Positions(doc, k) == {i \in 1..Len(doc) : doc[i].k = k}

\* os.path.basename(article_file) without its extension, and the link target
\* "articles/<basename>": both are identified by the stem of the file
Href(article_file) == article_file

ImagesDir == <<"i", "m", "a", "g", "e", "s">>

\* image.lstrip("/"), then "images/<basename>" unless it starts with "images/"
RECURSIVE DropEmpty(_)
DropEmpty(path) ==
    IF path # << >> /\ Head(path) = << >> THEN DropEmpty(Tail(path)) ELSE path

ImgSrc(image) ==
    LET p == DropEmpty(image)
    IN  IF Len(p) >= 2 /\ p[1] = ImagesDir THEN p ELSE <<ImagesDir, p[Len(p)]>>

MAX_LEN == 160
MIN_LEN == 150

\* the card of lines 307-322
card_html(titre, d, image, article_file, t) ==
    << WS,
       Tok("cmt", article_file, << >>, << >>, << >>, 0),
       WS,
       Plain("artopen"),
       Tok("thumb", Href(article_file), titre, ImgSrc(image), << >>, 0),
       Tok("body", << >>, titre, << >>, _make_excerpt(d, MAX_LEN, MIN_LEN), t),
       Tok("link", Href(article_file), << >>, << >>, << >>, 0),
       Plain("artclose") >>

\* "<!-- FEED:start -->" in idx_html and "<!-- FEED:end -->" in idx_html
HasMarkers(doc) == Positions(doc, "start") # {} /\ Positions(doc, "end") # {}

\* re.search of the grid tag: the end of the first match, 0 when there is none
GridEnd_zero(doc) ==
    IF Positions(doc, "grid") = {} THEN 0 ELSE Min(Positions(doc, "grid"))

GridEnd(doc) ==
    IF Positions(doc, "grid") = {} THEN -1 ELSE Min(Positions(doc, "grid"))

InsertAt(doc, pos, toks) ==
    SubSeq(doc, 1, pos) \o toks \o SubSeq(doc, pos + 1, Len(doc))

\* line 304
Bootstrap_atend(doc, pos) == InsertAt(doc, Len(doc), <<WS, START, WS, END, WS>>)

Bootstrap(doc, pos) == InsertAt(doc, pos, <<WS, START, WS, END, WS>>)

\* "<!-- card-[^-]+? -->": the comment of a card whose stem has no hyphen
CommentMatches(tok) ==
    tok.k = "cmt" /\ Len(tok.stem) >= 1 /\ \A i \in 1..Len(tok.stem) : tok.stem[i] # "-"

\* first of the positions after i, 0 if none
FirstAfter(positions, i) ==
    LET found == {j \in positions : j > i}
    IN  IF found = {} THEN 0 ELSE Min(found)

IsNotWs(tok) == tok.k # "ws"
NonWs(seq) == {j \in 1..Len(seq) : IsNotWs(seq[j])}

\* The pattern of line 327 tried with its comment at position c: the position
\* of the closing </article> of the match, 0 if it does not match there.
DedupMatchEnd(seq, c, href) ==
    LET hrefs == {j \in 1..Len(seq) : seq[j].k \in {"thumb", "link"} /\ seq[j].stem = href}
        a == FirstAfter(NonWs(seq), c)
        h == IF a = 0 THEN 0 ELSE FirstAfter(hrefs, a)
    IN  IF ~CommentMatches(seq[c]) \/ a = 0 THEN 0
        ELSE IF seq[a].k # "artopen" \/ h = 0 THEN 0
        ELSE FirstAfter(Positions(seq, "artclose"), h)

\* start of the whitespace run that ends just before position c
RECURSIVE WsRunStart(_, _)
WsRunStart(seq, c) ==
    IF c > 1 /\ seq[c - 1].k = "ws" THEN WsRunStart(seq, c - 1) ELSE c

\* re.sub of line 326-329: every non-overlapping match, leftmost first, removed
RECURSIVE Dedup(_, _)
Dedup(seq, href) ==
    LET cands == {c \in 1..Len(seq) : DedupMatchEnd(seq, c, href) # 0}
    IN  IF cands = {} THEN seq
        ELSE LET c == Min(cands)
                 z == DedupMatchEnd(seq, c, href)
             IN  SubSeq(seq, 1, WsRunStart(seq, c) - 1)
                   \o Dedup(SubSeq(seq, z + 1, Len(seq)), href)

\* re.sub of line 330: the card goes after the first start marker
InsertCard_beforeend(feed_block, card) ==
    IF Positions(feed_block, "end") = {} THEN feed_block
    ELSE InsertAt(feed_block, Max(Positions(feed_block, "end")) - 1, <<WS>> \o card)

InsertCard(feed_block, card) ==
    IF Positions(feed_block, "start") = {} THEN feed_block
    ELSE InsertAt(feed_block, Min(Positions(feed_block, "start")), <<WS>> \o card)

inject(feed_block, card, href) == InsertCard(Dedup(feed_block, href), card)

\* the match of "<!-- FEED:start -->[\s\S]*?<!-- FEED:end -->": <<first, last>>
\* positions, <<0, 0>> when there is none
FeedSpan(doc) ==
    LET s == IF Positions(doc, "start") = {} THEN 0 ELSE Min(Positions(doc, "start"))
        ends == {e \in Positions(doc, "end") : e > s}
    IN  IF s = 0 \/ ends = {} THEN <<0, 0>> ELSE <<s, Min(ends)>>

\* re.sub of line 333-334, count=1
SubFeed(doc, card, href) ==
    LET span == FeedSpan(doc)
    IN  IF span = <<0, 0>> THEN doc
        ELSE SubSeq(doc, 1, span[1] - 1)
               \o inject(SubSeq(doc, span[1], span[2]), card, href)
               \o SubSeq(doc, span[2] + 1, Len(doc))

\* line 338
AddStamp_replace(doc, t) ==
    SelectSeq(doc, LAMBDA tok : tok.k # "stamp") \o <<WS, Stamp(t), WS>>

AddStamp(doc, t) == doc \o <<WS, Stamp(t), WS>>

\* update_index from the text read (line 296) to the text written (line 341);
\* raised: SystemExit at line 302, nothing is written
update_index(idx_html, titre, d, image, article_file, t) ==
    LET pos == GridEnd(idx_html)
        marked == IF HasMarkers(idx_html) THEN idx_html ELSE Bootstrap(idx_html, pos)
        card == card_html(titre, d, image, article_file, t)
    IN  IF ~HasMarkers(idx_html) /\ pos < 0
        THEN [raised |-> TRUE, text |-> idx_html]
        ELSE [raised |-> FALSE,
              text |-> AddStamp(SubFeed(marked, card, Href(article_file)), t)]

----------------------------------------------------------------------------
(* update_index called on its own *)

\* stems of article files: one as save_article names it, two without a date
DatedStem == <<"2", "0", "2", "5", "-", "0", "8", "-", "1", "7", "-", "p", "h", "o">>
ArticleStems == {DatedStem, <<"s", "o", "u", "p", "a">>, <<"s", "o", "u", "p", "b">>}

\* titre, desc and image of a call
Payloads ==
    { [titre |-> <<"P", "h", "o">>,
       desc  |-> <<"a", "<", "a", ">", "\n", "a">>,
       image |-> <<<< >>, ImagesDir, <<"i", "1">> >>],
      [titre |-> <<"r", "i", "z">>,
       desc  |-> <<"a", " ", "a">>,
       image |-> << <<"t", "m", "p">>, <<"i", "2">> >>] }

\* index documents update_index may be given
InitDocs ==
    { <<Chunk(1), GRID, WS, START, WS, END, WS, Chunk(2)>>,
      <<Chunk(1), START, Chunk(2), END, Chunk(3), WS, Stamp(0), WS>>,
      <<START, END, Chunk(1), START, Chunk(2), END>>,
      <<Chunk(1), GRID, Chunk(2)>>,
      <<GRID, Chunk(1), GRID, Chunk(2)>>,
      <<Chunk(1), Chunk(2)>>,
      <<Chunk(1), START, Chunk(2)>>,
      <<Chunk(1), START, Chunk(2), GRID, Chunk(3)>>,
      <<Chunk(1), GRID, Chunk(2), END, Chunk(3)>>,
      <<Chunk(1), END, Chunk(2), START, GRID, Chunk(3)>> }

NoCall ==
    [n |-> 0, raised |-> FALSE, stem |-> << >>, titre |-> << >>,
     desc |-> << >>, image |-> << >>, t |-> 0, writes |-> 0]

\* None, where a dict is expected
NoneData ==
    [kind |-> "none", keys |-> {}, titre |-> << >>, description |-> << >>,
     items |-> [islist |-> FALSE, elems |-> << >>], sets |-> {}]

ExcerptIdle ==
    /\ desc = << >>
    /\ lens = <<0, 0>>
    /\ excerpt = << >>
    /\ epc = "idle"

MainIdle ==
    /\ pc = "idle"
    /\ attempt = 0
    /\ last_data = NoneData
    /\ data = NoneData
    /\ banned = {}
    /\ articles = {}
    /\ images = {}
    /\ today = << >>
    /\ runs = 0
    /\ validated = FALSE

InitIndex ==
    /\ index \in InitDocs
    /\ docInit = index
    /\ pre = index
    /\ last = NoCall
    /\ hist = << >>
    /\ now = 1
    /\ ExcerptIdle
    /\ MainIdle

\* one call update_index(titre, desc, image, article_file), the clock having
\* advanced by tick since the call before
UpdateIndexCall(p, article_file, tick) ==
    LET t == now + tick
        res == update_index(index, p.titre, p.desc, p.image, article_file, t)
    IN  /\ last.n < MaxCalls
        /\ now' = t
        /\ pre' = index
        /\ index' = IF res.raised THEN index ELSE res.text
        /\ hist' = IF res.raised THEN hist ELSE Append(hist, article_file)
        /\ last' = [n |-> last.n + 1, raised |-> res.raised, stem |-> article_file,
                    titre |-> p.titre, desc |-> p.desc, image |-> p.image,
                    t |-> t, writes |-> IF res.raised THEN 0 ELSE 1]
        /\ docInit' = docInit
        /\ UNCHANGED varsExcerpt
        /\ UNCHANGED varsMain

NextIndex ==
    \E p \in Payloads, article_file \in ArticleStems, tick \in {0, 1} :
        UpdateIndexCall(p, article_file, tick)

SpecIndex == InitIndex /\ [][NextIndex]_vars

----------------------------------------------------------------------------
(* Reading the feed region of a document *)

HasRegion(doc) == FeedSpan(doc) # <<0, 0>>

Region(doc) ==
    IF HasRegion(doc) THEN SubSeq(doc, FeedSpan(doc)[1], FeedSpan(doc)[2]) ELSE << >>

\* link targets of the cards of a text, in order: one <a class="link"> a card
LinkTargets(seq) ==
    LET links == SelectSeq(seq, LAMBDA tok : tok.k = "link")
    IN  [i \in 1..Len(links) |-> links[i].stem]

CardKinds == {"cmt", "artopen", "thumb", "body", "link", "artclose"}

\* the markup of the cards of a text, whitespace and other text left out
CardMarkup(seq) == SelectSeq(seq, LAMBDA tok : tok.k \in CardKinds)

\* the markup of the cards of a text that do not link to href: a card is the
\* six tokens from its comment to its </article>
OtherCards(seq, href) ==
    LET m == CardMarkup(seq)
        keep == {i \in 1..Len(m) : m[6 * ((i - 1) \div 6) + 5].stem # href}
        F[i \in 0..Len(m)] ==
            IF i = 0 THEN << >>
            ELSE IF i \in keep THEN Append(F[i - 1], m[i]) ELSE F[i - 1]
    IN  F[Len(m)]

CountOf(seq, x) == Cardinality({i \in 1..Len(seq) : seq[i] = x})

NoDuplicates(seq) == \A i, j \in 1..Len(seq) : seq[i] = seq[j] => i = j

----------------------------------------------------------------------------
(* _make_excerpt called on its own *)

\* <<max_len, min_len>> of a call
ExcerptParams == {<<3, 1>>, <<3, 2>>, <<4, 2>>, <<2, 0>>, <<3, 3>>, <<2, 4>>}

InitExcerpt ==
    /\ desc \in SeqsUpTo(Chars, MaxDescLen)
    /\ lens \in ExcerptParams
    /\ excerpt = << >>
    /\ epc = "call"
    /\ index = << >>
    /\ docInit = << >>
    /\ pre = << >>
    /\ last = NoCall
    /\ hist = << >>
    /\ now = 1
    /\ MainIdle

MakeExcerptCall ==
    /\ epc = "call"
    /\ excerpt' = _make_excerpt(desc, lens[1], lens[2])
    /\ epc' = "ret"
    /\ UNCHANGED <<desc, lens>>
    /\ UNCHANGED varsIndex
    /\ UNCHANGED varsMain

NextExcerpt == MakeExcerptCall

SpecExcerpt == InitExcerpt /\ [][NextExcerpt]_vars

----------------------------------------------------------------------------
(* Properties of update_index *)

Called == last.n > 0
Completed == last.n > 0 /\ ~last.raised

LastCard == card_html(last.titre, last.desc, last.image, last.stem, last.t)

\* C1: at most one card of the feed region links to any given article file,
\* and after a completed injection into a document with a feed region exactly
\* one card links to the injected file and it is the card just built (title,
\* excerpt, image of this injection).
C1_OneCardPerReference ==
    /\ \A stem \in ArticleStems : CountOf(LinkTargets(Region(index)), stem) <= 1
    /\ (Completed /\ HasRegion(index)) =>
          /\ CountOf(LinkTargets(Region(index)), last.stem) = 1
          /\ CardMarkup(Region(index)) =
                CardMarkup(LastCard) \o OtherCards(Region(index), last.stem)

\* C2: when the files injected so far are pairwise distinct, the feed region
\* lists exactly their cards, the last injected first.
C2_NewestFirst ==
    (HasRegion(index) /\ NoDuplicates(hist)) =>
        LinkTargets(Region(index)) = Reverse(hist)

C2_Witness ==
    /\ HasRegion(index)
    /\ NoDuplicates(hist)
    /\ Len(hist) = 3
    /\ LinkTargets(Region(index)) = <<hist[3], hist[2], hist[1]>>

\* C3: an injection leaves every card that links to another file in the feed
\* region, with the same markup and in the same order.
C3_OtherCardsKept ==
    Completed =>
        OtherCards(Region(index), last.stem) = OtherCards(Region(pre), last.stem)

StampsOf(doc) == SelectSeq(doc, LAMBDA tok : tok.k = "stamp")

\* C4: an injection into a document that has both markers changes nothing up
\* to the start marker and nothing from the end marker on, except for one
\* audit comment appended at the very end; the audit comments already there
\* stay, so the document holds one more per completed call.
C4_OutsideUntouched ==
    /\ IsPrefix(StampsOf(docInit), StampsOf(index))
    /\ Len(StampsOf(index)) = Len(StampsOf(docInit)) + Len(hist)
    /\ (Completed /\ HasMarkers(pre)) =>
          LET sp == FeedSpan(pre)
              trailer == <<WS, Stamp(last.t), WS>>
              after == SubSeq(pre, sp[2], Len(pre)) \o trailer
          IN  IF sp = <<0, 0>> THEN index = pre \o trailer
              ELSE /\ Len(index) >= sp[1] + Len(after)
                   /\ SubSeq(index, 1, sp[1]) = SubSeq(pre, 1, sp[1])
                   /\ SubSeq(index, Len(index) - Len(after) + 1, Len(index)) = after
                   /\ StampsOf(index) = StampsOf(pre) \o <<Stamp(last.t)>>

C4_Witness ==
    /\ Completed
    /\ last.n >= 2
    /\ HasRegion(pre)
    /\ Len(StampsOf(pre)) >= 2
    /\ FeedSpan(pre)[2] < Len(pre) - 3
    /\ Len(StampsOf(index)) = Len(StampsOf(pre)) + 1

NoMarkers(doc) == Positions(doc, "start") = {} /\ Positions(doc, "end") = {}

\* C5: a document with neither marker but with a grid tag gets, right after
\* the first grid tag, a start marker, the new card and an end marker, and
\* nothing else changes but the audit comment; there is then exactly one start
\* marker and one end marker, the start marker first.
C5_Bootstrap ==
    (Called /\ NoMarkers(pre) /\ Positions(pre, "grid") # {}) =>
        LET g == Min(Positions(pre, "grid"))
        IN  /\ ~last.raised
            /\ Cardinality(Positions(index, "start")) = 1
            /\ Cardinality(Positions(index, "end")) = 1
            /\ Min(Positions(index, "start")) < Min(Positions(index, "end"))
            /\ SubSeq(index, 1, g) = SubSeq(pre, 1, g)
            /\ FirstAfter(NonWs(index), g) = Min(Positions(index, "start"))
            /\ SelectSeq(Region(index), IsNotWs) = <<START>> \o CardMarkup(LastCard) \o <<END>>
            /\ index = SubSeq(pre, 1, g) \o <<WS>> \o Region(index) \o <<WS>>
                         \o SubSeq(pre, g + 1, Len(pre)) \o <<WS, Stamp(last.t), WS>>

C5_Witness ==
    /\ Called
    /\ NoMarkers(pre)
    /\ Positions(pre, "grid") # {}
    /\ Positions(index, "start") # {}
    /\ last.stem \in {LinkTargets(Region(index))[i] : i \in 1..Len(LinkTargets(Region(index)))}

\* C6: with a marker missing and no grid tag the call raises and the file is
\* what it was; a call writes the file at most once, and not at all when it
\* raises.
C6_ErrorLeavesIndex ==
    /\ (Called /\ ~HasMarkers(pre) /\ Positions(pre, "grid") = {}) =>
          (last.raised /\ index = pre /\ last.writes = 0)
    /\ (Called /\ last.raised) => (index = pre /\ last.writes = 0)
    /\ last.writes <= 1

C6_Witness ==
    /\ Called
    /\ last.raised
    /\ ~HasMarkers(pre)
    /\ Positions(pre, "grid") = {}
    /\ index = docInit

\* C8: after a call that completes, the document has a start marker followed
\* by an end marker with, in between, a card that links to the injected file.
C8_RegionAfterSuccess ==
    Completed =>
        /\ HasRegion(index)
        /\ CountOf(LinkTargets(Region(index)), last.stem) >= 1

----------------------------------------------------------------------------
(* Properties of _make_excerpt *)

\* lengths of the prefixes of txt that end just before a space and have at
\* most limit characters
Boundaries(txt, limit) ==
    {c \in 0..limit : c < Len(txt) /\ txt[c + 1] = " "}

TruncationRule(limit) ==
    epc = "ret" =>
        LET T == ExcerptText(desc)
            max_len == lens[1]
            min_len == lens[2]
            B == {c \in Boundaries(T, limit) : c >= min_len}
        IN  /\ Len(T) <= max_len => excerpt = T
            /\ Len(T) > max_len =>
                  IF B # {} THEN excerpt = Slice(T, Max(B))
                  ELSE excerpt = Strip(Slice(T, max_len))
            /\ Len(excerpt) <= max_len
            /\ IsPrefix(excerpt, T)

\* C7 as stated: a text longer than max_len is cut at the last space at or
\* before max_len, a space that follows exactly max_len characters included.
C7_CutAtOrBeforeMax == TruncationRule(lens[1])

\* C7: a text longer than max_len is cut at the last space whose index is
\* below max_len, if that index is at least min_len, and after max_len
\* characters otherwise; the result is a prefix of the text of at most
\* max_len characters.
C7_CutBelowMax == TruncationRule(lens[1] - 1)

C7_Witness ==
    /\ epc = "ret"
    /\ Len(ExcerptText(desc)) > lens[1]
    /\ Len(excerpt) < lens[1]
    /\ Len(excerpt) >= lens[2]
    /\ Len(excerpt) > 0
    /\ ExcerptText(desc)[Len(excerpt) + 1] = " "

----------------------------------------------------------------------------
(* The script: generation, rendering, publication *)

\* unicodedata.normalize("NFKD", s).encode("ascii", "ignore"): an accented
\* letter keeps its base letter, other non-ASCII characters are dropped
Ascii(c) == IF c = "é" THEN <<"e">> ELSE IF c = "ø" THEN << >> ELSE <<c>>

\* str.lower() on the capitals that occur in the titles
Lower(c) == IF c = "P" THEN "p" ELSE IF c = "R" THEN "r" ELSE c

\* the characters of [a-z0-9] that occur in the titles
SlugChars == {"p", "h", "o", "r", "i", "z", "e"}

RECURSIVE ToAsciiLower(_)
ToAsciiLower(s) ==
    IF s = << >> THEN << >>
    ELSE LET a == Ascii(Head(s))
         IN  [i \in 1..Len(a) |-> Lower(a[i])] \o ToAsciiLower(Tail(s))

\* re.sub(r"[^a-z0-9]+", "_", s)
RECURSIVE SubNonAlnum(_)
SubNonAlnum(s) ==
    IF s = << >> THEN << >>
    ELSE IF Head(s) \notin SlugChars
         THEN LET k == IF \A i \in 1..Len(s) : s[i] \notin SlugChars THEN Len(s)
                       ELSE Min({i \in 1..Len(s) : s[i] \in SlugChars}) - 1
              IN  <<"_">> \o SubNonAlnum(SubSeq(s, k + 1, Len(s)))
         ELSE <<Head(s)>> \o SubNonAlnum(Tail(s))

\* str.strip("_")
RECURSIVE StripUnderscores(_)
StripUnderscores(s) ==
    IF s # << >> /\ Head(s) = "_" THEN StripUnderscores(Tail(s))
    ELSE IF s # << >> /\ s[Len(s)] = "_" THEN StripUnderscores(SubSeq(s, 1, Len(s) - 1))
    ELSE s

slugify(s) == StripUnderscores(SubNonAlnum(ToAsciiLower(s)))

\* f"{today}-{slugify(titre)}": the stem of the article and of the image
FileStem(day, titre) == day \o <<"-">> \o slugify(titre)

\* stem.split("-", 1)[1]: what follows the first hyphen
AfterFirstHyphen(stem) ==
    SubSeq(stem, Min({i \in 1..Len(stem) : stem[i] = "-"}) + 1, Len(stem))

existing_article_slugs(files) ==
    {AfterFirstHyphen(stem) : stem \in {f \in files : \E i \in 1..Len(f) : f[i] = "-"}}

Required ==
    {"titre", "description", "duree_preparation", "duree_preparation_iso",
     "etapes", "astuce", "conseils"}

ItemKeys == {"nom", "unite", "pour_2", "pour_3", "pour_4"}

Item(nom, keys) == [nom |-> nom, keys |-> keys]

List(elems) == [islist |-> TRUE, elems |-> elems]
NotAList == [islist |-> FALSE, elems |-> << >>]

\* a JSON object of the model's answer; sets: the cleaned names of the lists
\* of the old "ingredients" format
Dict(keys, titre, items, sets) ==
    [kind |-> "dict", keys |-> keys, titre |-> titre,
     description |-> <<"a", "<", "a", ">", " ", "a">>,
     items |-> items, sets |-> sets]

Titles == { <<"P", "h", "o">>, <<"p", "h", "o", "!">>, <<"R", "i", "z", " ", "é">> }

\* answers of the model: no JSON, invalid JSON, and JSON objects
Responses ==
    { [NoneData EXCEPT !.kind = "nojson"],
      [NoneData EXCEPT !.kind = "badjson"],
      Dict({}, << >>, NotAList, {}),
      Dict(Required \ {"astuce"}, <<"P", "h", "o">>, NotAList, {}),
      Dict(Required, <<"P", "h", "o">>, NotAList, {}),
      Dict(Required \cup {"ingredients_items"}, <<"P", "h", "o">>, List(<< >>), {}),
      Dict(Required \cup {"ingredients_items"}, <<"P", "h", "o">>, NotAList, {}),
      Dict(Required \cup {"ingredients_items"}, <<"P", "h", "o">>,
           List(<<Item("riz", {"nom", "unite"})>>), {}),
      Dict(Required \cup {"ingredients"}, <<"P", "h", "o">>, NotAList,
           {{"riz", "poulet"}, {"riz"}}),
      Dict(Required \cup {"ingredients"}, <<"P", "h", "o">>, NotAList, {{}}) }
    \cup
    { Dict(Required \cup {"ingredients_items"}, t, List(<<Item("riz", ItemKeys)>>), {})
        : t \in Titles }

Intersection(S) == {x \in UNION S : \A T \in S : x \in T}

\* sorted(base): the names in some fixed order
RECURSIVE Sorted(_)
Sorted(S) ==
    IF S = {} THEN << >>
    ELSE LET x == CHOOSE y \in S : TRUE IN <<x>> \o Sorted(S \ {x})

\* lines 149-170: the old format turned into ingredients_items
ConvertLegacy(d) ==
    IF "ingredients_items" \notin d.keys /\ "ingredients" \in d.keys
    THEN LET base0 == IF d.sets = {} THEN {} ELSE Intersection(d.sets)
             base == IF base0 = {} /\ d.sets # {} THEN UNION d.sets ELSE base0
             names == Sorted(base)
         IN  [d EXCEPT !.keys = (d.keys \cup {"ingredients_items"}) \ {"ingredients"},
                       !.items = List([i \in 1..Len(names) |-> Item(names[i], ItemKeys)]),
                       !.sets = {}]
    ELSE d

\* data.get("ingredients_items", [])
ItemsOf(d) == IF "ingredients_items" \in d.keys THEN d.items ELSE List(<< >>)

ItemsOk(d) ==
    /\ ItemsOf(d).islist
    /\ ItemsOf(d).elems # << >>
    /\ \A i \in 1..Len(ItemsOf(d).elems) : ItemKeys \subseteq ItemsOf(d).elems[i].keys

\* One pass of the loop of lines 111-182 on the answer resp:
\* ret: the record is returned (line 182); last: last_data after the pass
Attempt(resp, ban, prev) ==
    LET d == ConvertLegacy(resp)
    IN  IF resp.kind # "dict" THEN [ret |-> FALSE, last |-> prev]
        ELSE IF ~(Required \subseteq resp.keys) THEN [ret |-> FALSE, last |-> resp]
        ELSE IF "ingredients_items" \notin resp.keys /\ "ingredients" \notin resp.keys
             THEN [ret |-> FALSE, last |-> resp]
        ELSE IF slugify(resp.titre) \in ban THEN [ret |-> FALSE, last |-> resp]
        ELSE [ret |-> ItemsOk(d), last |-> d]

\* "not data" at line 349: None or an empty dict
Falsy(d) == d.kind # "dict" \/ d.keys = {}

\* generate_html_from_template raises KeyError on a missing key
Renders(d) ==
    /\ Required \subseteq d.keys
    /\ \A i \in 1..Len(ItemsOf(d).elems) :
          {"nom", "pour_2", "pour_3", "pour_4"} \subseteq ItemsOf(d).elems[i].keys

Day1 == <<"2", "0", "2", "5", "-", "0", "8", "-", "1", "7">>
Day2 == <<"2", "0", "2", "5", "-", "0", "8", "-", "1", "8">>
Days == <<Day1, Day2>>

MAX_ATTEMPTS == 4

InitMain ==
    /\ pc = "idle"
    /\ attempt = 0
    /\ last_data = NoneData
    /\ data = NoneData
    /\ banned = {}
    /\ articles \in {{}, {FileStem(Day1, <<"P", "h", "o">>)}}
    /\ images = {}
    /\ today = Day1
    /\ runs = 0
    /\ validated = FALSE
    /\ index \in { <<Chunk(1), GRID, WS, START, WS, END, WS, Chunk(2)>>,
                   <<Chunk(1), GRID, Chunk(2)>>,
                   <<Chunk(1), Chunk(2)>> }
    /\ docInit = index
    /\ pre = index
    /\ last = NoCall
    /\ hist = << >>
    /\ now = 1
    /\ ExcerptIdle

\* the script is started on day Days[i], not before the day of the run before;
\* line 71 reads the article directory
StartRun(i) ==
    /\ pc \in {"idle", "done", "aborted", "crashed"}
    /\ runs < MaxRuns
    /\ runs = 0 \/ today \in {Days[j] : j \in 1..i}
    /\ runs' = runs + 1
    /\ today' = Days[i]
    /\ banned' = existing_article_slugs(articles)
    /\ attempt' = 0
    /\ last_data' = NoneData
    /\ data' = NoneData
    /\ validated' = FALSE
    /\ pc' = "gen"
    /\ UNCHANGED <<articles, images>>
    /\ UNCHANGED varsIndex
    /\ UNCHANGED varsExcerpt

\* one pass of the loop with the answer resp
GenerateAttempt(resp) ==
    LET out == Attempt(resp, banned, last_data)
    IN  /\ pc = "gen"
        /\ attempt < MAX_ATTEMPTS
        /\ attempt' = attempt + 1
        /\ last_data' = out.last
        /\ IF out.ret
           THEN data' = out.last /\ validated' = TRUE /\ pc' = "main"
           ELSE UNCHANGED <<data, validated, pc>>
        /\ UNCHANGED <<banned, articles, images, today, runs>>
        /\ UNCHANGED varsIndex
        /\ UNCHANGED varsExcerpt

\* line 185: the loop is over, last_data is returned
GenerateFallback ==
    /\ pc = "gen"
    /\ attempt = MAX_ATTEMPTS
    /\ data' = last_data
    /\ pc' = "main"
    /\ UNCHANGED <<attempt, last_data, validated, banned, articles, images, today, runs>>
    /\ UNCHANGED varsIndex
    /\ UNCHANGED varsExcerpt

\* lines 349-352: SystemExit on a falsy record, else the image is written
\* (KeyError when the record has no "titre")
GenerateImage ==
    /\ pc = "main"
    /\ IF Falsy(data) THEN pc' = "aborted" /\ UNCHANGED images
       ELSE IF "titre" \notin data.keys THEN pc' = "crashed" /\ UNCHANGED images
       ELSE pc' = "render" /\ images' = images \cup {FileStem(today, data.titre)}
    /\ UNCHANGED <<attempt, last_data, data, validated, banned, articles, today, runs>>
    /\ UNCHANGED varsIndex
    /\ UNCHANGED varsExcerpt

\* lines 353-354: the page is rendered and written
RenderAndSave ==
    /\ pc = "render"
    /\ IF Renders(data)
       THEN pc' = "index" /\ articles' = articles \cup {FileStem(today, data.titre)}
       ELSE pc' = "crashed" /\ UNCHANGED articles
    /\ UNCHANGED <<attempt, last_data, data, validated, banned, images, today, runs>>
    /\ UNCHANGED varsIndex
    /\ UNCHANGED varsExcerpt

\* line 355
PublishCard(tick) ==
    LET t == now + tick
        article_file == FileStem(today, data.titre)
        image_path == << << >>, ImagesDir, FileStem(today, data.titre) >>
        res == update_index(index, data.titre, data.description, image_path, article_file, t)
    IN  /\ pc = "index"
        /\ now' = t
        /\ pre' = index
        /\ index' = IF res.raised THEN index ELSE res.text
        /\ hist' = IF res.raised THEN hist ELSE Append(hist, article_file)
        /\ last' = [n |-> last.n + 1, raised |-> res.raised, stem |-> article_file,
                    titre |-> data.titre, desc |-> data.description,
                    image |-> image_path, t |-> t,
                    writes |-> IF res.raised THEN 0 ELSE 1]
        /\ pc' = IF res.raised THEN "aborted" ELSE "done"
        /\ docInit' = docInit
        /\ UNCHANGED <<attempt, last_data, data, validated, banned, articles, images, today, runs>>
        /\ UNCHANGED varsExcerpt

NextMain ==
    \/ \E i \in 1..Len(Days) : StartRun(i)
    \/ \E resp \in Responses : GenerateAttempt(resp)
    \/ GenerateFallback
    \/ GenerateImage
    \/ RenderAndSave
    \/ \E tick \in {0, 1} : PublishCard(tick)

SpecMain == InitMain /\ [][NextMain]_vars

----------------------------------------------------------------------------
(* Properties of the script *)

Validated(d) ==
    /\ d.kind = "dict"
    /\ Required \subseteq d.keys
    /\ "ingredients_items" \in d.keys
    /\ ItemsOk(d)

\* the slugs of the published articles: what follows the date "YYYY-MM-DD-"
\* in the stems of their files
PublishedSlugs(files) == {SubSeq(stem, 12, Len(stem)) : stem \in files}

\* C9: the banned slugs are the slugs of the published articles (what follows
\* the date in their names), and the record that generate_recette_via_ai
\* returns never has the slug of an article published before the run.
C9_NoDuplicateSlug ==
    /\ pc \in {"gen", "main", "render"} =>
          banned = PublishedSlugs(articles)
    /\ (pc \in {"main", "render"} /\ ~Falsy(data) /\ "titre" \in data.keys) =>
          slugify(data.titre) \notin PublishedSlugs(articles)

\* C10: there are at most 4 attempts, and the script gets past the writing of
\* the article (to the index update, and to its end) only with a record that
\* left the loop validated and satisfies the validations.
C10_OnlyValidatedPublished ==
    /\ attempt <= 4
    /\ pc \in {"index", "done"} => (validated /\ Validated(data))

====
